---- MODULE Spec2Model ----
(***************************************************************************)
(* A model of the CHIP-8 machine of src/Chip8.h and src/Chip8.cpp: the     *)
(* state of class Chip8, its constructor, LoadROM and the opcode handlers. *)
(*                                                                         *)
(* Representation.                                                         *)
(*  - memory (uint8_t[4096], zero-initialised) is kept sparse: a function  *)
(*    from the addresses holding a non-zero byte to that byte; Mem(m, a)   *)
(*    reads it, and an absent address reads 0.                             *)
(*  - video (uint32_t[2048], zero-initialised) only ever holds 0 or        *)
(*    0xFFFFFFFF in a cell (OP_00E0 stores 0, OP_Dxyn XORs 0xFFFFFFFF), so *)
(*    it is kept as the set of cell indices that hold 0xFFFFFFFF.          *)
(*  - masks and shifts on unsigned operands are written with \div and %:   *)
(*    (op & 0x0F00) >> 8 is (op \div 256) % 16, and so on.                 *)
(*  - an access outside an array is undefined behaviour.  Each handler     *)
(*    records the accesses it makes in acc, and where an out-of-range      *)
(*    store lands is a nondeterministic choice between no visible effect   *)
(*    and the member that Chip8.h declares next to the array.              *)
(*  - lastOp, input, prev, acc and steps are history variables: the        *)
(*    operation that ran last, what it was given, the machine as it was    *)
(*    before it ran, the array accesses it made, and the number of         *)
(*    operations run so far.  calls is the history of the subroutine       *)
(*    calls still open: for each, the address after the Call instruction   *)
(*    and the stack pointer the Call found; ok says that no Call or Return *)
(*    so far used a stack slot outside the array.                          *)
(***************************************************************************)
EXTENDS Integers, Sequences, FiniteSets, TLC

VARIABLES registers, memory, index, pc, stack, sp, delayTimer, soundTimer,
          keypad, video, opcode, beyond, lastOp, prev, acc, steps, input,
          calls

machine == <<registers, memory, index, pc, stack, sp, delayTimer, soundTimer,
             keypad, video, opcode, beyond>>
vars == <<registers, memory, index, pc, stack, sp, delayTimer, soundTimer,
          keypad, video, opcode, beyond, lastOp, prev, acc, steps, input,
          calls>>

---------------------------------------------------------------------------
(* Program constants *)

START_ADDRESS == 512
FONTSET_START_ADDRESS == 80
FONTSET_SIZE == 80
MEMORY_SIZE == 4096
STACK_SIZE == 16
VIDEO_WIDTH == 64
VIDEO_HEIGHT == 32

Byte == 0..255
RegIdx == 0..15

fontset ==
  << 240, 144, 144, 144, 240,    32,  96,  32,  32, 112,
     240,  16, 240, 128, 240,   240,  16, 240,  16, 240,
     144, 144, 240,  16,  16,   240, 128, 240,  16, 240,
     240, 128, 240, 144, 240,   240,  16,  32,  64,  64,
     240, 144, 240, 144, 240,   240, 144, 240,  16, 240,
     240, 144, 240, 144, 144,   224, 144, 224, 144, 224,
     240, 128, 128, 128, 240,   224, 144, 144, 144, 224,
     240, 128, 240, 128, 240,   240, 128, 240, 128, 128 >>

---------------------------------------------------------------------------
(* Fixed-width arithmetic and the fields of an instruction word *)

U8(n) == n % 256
U16(n) == n % 65536

OpX(op) == (op \div 256) % 16       \* (opcode & 0x0F00u) >> 8u
OpY(op) == (op \div 16) % 16        \* (opcode & 0x00F0u) >> 4u
OpN(op) == op % 16                  \* opcode & 0x000Fu
OpKK(op) == op % 256                \* opcode & 0x00FFu
OpNNN(op) == op % 4096              \* opcode & 0x0FFFu

---------------------------------------------------------------------------
(* Sparse memory *)

Mem(m, a) == IF a \in DOMAIN m THEN m[a] ELSE 0

MemPut(m, a, v) ==
  IF v = 0
    THEN [b \in DOMAIN m \ {a} |-> m[b]]
    ELSE [b \in DOMAIN m \cup {a} |-> IF b = a THEN v ELSE m[b]]

---------------------------------------------------------------------------
(* Construction: Chip8::Chip8 and the default member initialisers *)

FontMemory ==
  [a \in FONTSET_START_ADDRESS .. FONTSET_START_ADDRESS + FONTSET_SIZE - 1
     |-> fontset[a - FONTSET_START_ADDRESS + 1]]

Snapshot ==
  [registers |-> registers, index |-> index, pc |-> pc, stack |-> stack,
   sp |-> sp, delayTimer |-> delayTimer, soundTimer |-> soundTimer,
   keypad |-> keypad, opcode |-> opcode]

(* The machine with the given registers, memory, index and pc, and every   *)
(* other member as the constructor leaves it.                              *)
StartsAs(regs, mem, idx, pcv) ==
  /\ registers = regs
  /\ memory = mem
  /\ index = idx
  /\ pc = pcv
  /\ stack = [s \in 0..STACK_SIZE-1 |-> 0]
  /\ sp = 0
  /\ delayTimer = 0
  /\ soundTimer = 0
  /\ keypad = [k \in 0..15 |-> 0]
  /\ video = {}
  /\ opcode = 0
  /\ lastOp = "Chip8"
  /\ prev = Snapshot
  /\ acc = {}
  /\ steps = 0
  /\ input = 0
  /\ calls = [ok |-> TRUE, open |-> <<>>]

ZeroRegisters == [r \in RegIdx |-> 0]

Constructed == StartsAs(ZeroRegisters, FontMemory, 0, START_ADDRESS)

(* The history variables of a step that runs operation `name` on `in`. *)
History(name, in) ==
  /\ lastOp' = name
  /\ input' = in
  /\ prev' = Snapshot
  /\ steps' = steps + 1

Ran(name, in) == History(name, in) /\ calls' = calls

---------------------------------------------------------------------------
(* Arithmetic handlers (family 8) *)

Sum16_narrow(a, b) == U8(a + b)
Sum16(a, b) == U16(a + b)           \* uint16_t sum = registers[Vx] + registers[Vy]

CarryFlag(sum) == IF sum > 255 THEN 1 ELSE 0

OP_8xy4(op) ==
  LET Vx == OpX(op)
      Vy == OpY(op)
      sum == Sum16(registers[Vx], registers[Vy])
      flagged == [registers EXCEPT ![15] = CarryFlag(sum)]
  IN  /\ registers' = [flagged EXCEPT ![Vx] = sum % 256]
      /\ acc' = {}
      /\ UNCHANGED <<memory, index, pc, stack, sp, delayTimer, soundTimer,
                     keypad, video, beyond>>

NoBorrow_ge(a, b) == IF a >= b THEN 1 ELSE 0
NoBorrow(a, b) == IF a > b THEN 1 ELSE 0

OP_8xy5(op) ==
  LET Vx == OpX(op)
      Vy == OpY(op)
      flagged == [registers EXCEPT ![15] = NoBorrow(registers[Vx], registers[Vy])]
  IN  /\ registers' = [flagged EXCEPT ![Vx] = U8(flagged[Vx] - flagged[Vy])]
      /\ acc' = {}
      /\ UNCHANGED <<memory, index, pc, stack, sp, delayTimer, soundTimer,
                     keypad, video, beyond>>

---------------------------------------------------------------------------
(* SpecALU: one arithmetic handler applied to a machine whose registers    *)
(* V0 and V1 hold any two bytes (as OP_6xkk can load them).                *)

AluX == {0, 15}
AluY == {1, 15}
AluWord(base, x, y) == base + 256 * x + 16 * y

InitALU ==
  /\ \E a \in Byte, b \in Byte :
        StartsAs([ZeroRegisters EXCEPT ![0] = a, ![1] = b], FontMemory, 0,
                 START_ADDRESS)
  /\ beyond = [fill |-> "zero", toggled |-> {}]

AluAdd ==
  /\ steps = 0
  /\ \E x \in AluX, y \in AluY :
        LET op == AluWord(32772, x, y)      \* 0x8xy4
        IN  opcode' = op /\ OP_8xy4(op) /\ Ran("OP_8xy4", op)

AluSub ==
  /\ steps = 0
  /\ \E x \in AluX, y \in AluY :
        LET op == AluWord(32773, x, y)      \* 0x8xy5
        IN  opcode' = op /\ OP_8xy5(op) /\ Ran("OP_8xy5", op)

NextALU == AluAdd \/ AluSub

SpecALU == InitALU /\ [][NextALU]_vars

---------------------------------------------------------------------------
(* Operands of the last instruction, before and after it ran *)

X == OpX(opcode)
Y == OpY(opcode)
VxBefore == prev.registers[X]
VyBefore == prev.registers[Y]
PlainXY == X # Y /\ X # 15 /\ Y # 15

C2_SubNoBorrow ==
  (lastOp = "OP_8xy5" /\ PlainXY) =>
     /\ registers[15] = (IF VxBefore > VyBefore THEN 1 ELSE 0)
     /\ registers[X] = (VxBefore - VyBefore + 256) % 256

C2_Witness ==
  /\ lastOp = "OP_8xy5" /\ PlainXY
  /\ VxBefore = 7 /\ VyBefore = 7
  /\ registers[15] = 0 /\ registers[X] = 0

---------------------------------------------------------------------------
(* Skip-on-immediate handlers *)

Byte3(op) == op % 256               \* OP_3xkk: uint8_t byte = opcode & 0x00FFu
Byte4(op) == op % 16                \* OP_4xkk: uint8_t byte = opcode & 0x00Fu

Skip3Taken(v, op) == v = Byte3(op)  \* registers[Vx] == byte
Skip4Taken(v, op) == v # Byte4(op)  \* registers[Vx] != byte

OP_3xkk(op) ==
  /\ pc' = IF Skip3Taken(registers[OpX(op)], op) THEN U16(pc + 2) ELSE pc
  /\ acc' = {}
  /\ UNCHANGED <<registers, memory, index, stack, sp, delayTimer, soundTimer,
                 keypad, video, beyond>>

OP_4xkk(op) ==
  /\ pc' = IF Skip4Taken(registers[OpX(op)], op) THEN U16(pc + 2) ELSE pc
  /\ acc' = {}
  /\ UNCHANGED <<registers, memory, index, stack, sp, delayTimer, soundTimer,
                 keypad, video, beyond>>

---------------------------------------------------------------------------
(* SpecSkip: one skip-on-immediate handler, for every byte in V0 and every *)
(* immediate byte of the instruction word.                                 *)

InitSkip ==
  /\ \E v \in Byte :
        StartsAs([ZeroRegisters EXCEPT ![0] = v], FontMemory, 0, START_ADDRESS)
  /\ beyond = [fill |-> "zero", toggled |-> {}]

SkipEq ==
  /\ steps = 0
  /\ \E kk \in Byte :
        LET op == 12288 + kk                \* 0x30kk
        IN  opcode' = op /\ OP_3xkk(op) /\ Ran("OP_3xkk", op)

SkipNe ==
  /\ steps = 0
  /\ \E kk \in Byte :
        LET op == 16384 + kk                \* 0x40kk
        IN  opcode' = op /\ OP_4xkk(op) /\ Ran("OP_4xkk", op)

NextSkip == SkipEq \/ SkipNe

SpecSkip == InitSkip /\ [][NextSkip]_vars

(* C8: skip-not-equal-immediate (OP_4xkk) on Vx = v and immediate byte kk  *)
(* (bits 7-0 of the word) advances pc by 2 iff v # kk and leaves pc alone  *)
(* iff v = kk: the complement of OP_3xkk on the same (v, kk).              *)
C8_SkipNotEqual ==
  lastOp = "OP_4xkk" =>
     /\ (VxBefore # OpKK(opcode)) => pc = prev.pc + 2
     /\ (VxBefore = OpKK(opcode)) => pc = prev.pc
     /\ (pc # prev.pc) = ~Skip3Taken(VxBefore, opcode)

---------------------------------------------------------------------------
(* The fetch of a cycle.  Chip8.h declares no Cycle(); the handlers'       *)
(* comments (Chip8.cpp lines 79, 93, 376) rely on one that has advanced pc *)
(* by 2 before the handler runs.  It is taken from the specification:      *)
(* the word is (memory[pc] << 8) | memory[pc + 1], then pc += 2.           *)

FetchWord(m, p) == 256 * Mem(m, p) + Mem(m, p + 1)
FetchAdvance(p) == U16(p + 2)

---------------------------------------------------------------------------
(* Key wait *)

Pressed(keys) == {k \in 0..15 : keys[k] # 0}

HighestPressed(keys) == CHOOSE k \in Pressed(keys) : \A j \in Pressed(keys) : j <= k
(* The else-if chain keypad[0], keypad[1], ..., keypad[15] *)
FirstPressed(keys) == CHOOSE k \in Pressed(keys) : \A j \in Pressed(keys) : k <= j

(* pcNow is pc as the handler finds it. *)
OP_Fx0A(op, pcNow) ==
  LET Vx == OpX(op)
  IN  /\ IF Pressed(keypad) # {}
            THEN /\ registers' = [registers EXCEPT ![Vx] = FirstPressed(keypad)]
                 /\ pc' = pcNow
            ELSE /\ registers' = registers
                 /\ pc' = U16(pcNow - 2)
      /\ acc' = {}
      /\ UNCHANGED <<memory, index, stack, sp, delayTimer, soundTimer,
                     keypad, video, beyond>>

---------------------------------------------------------------------------
(* SpecKey: a key-wait instruction Fx0A at address p, the cycles that      *)
(* execute it, and the input adapter pressing and releasing keys between   *)
(* cycles.                                                                 *)

MaxCycles == 3
MaxPressed == 2

KeyWaitAt == {START_ADDRESS, MEMORY_SIZE - 2}
KeyWaitX == {0, 15}

IsFx0A(w) == w \div 4096 = 15 /\ w % 256 = 10

InitKey ==
  /\ \E p \in KeyWaitAt, x \in KeyWaitX, v \in {0, 171} :
        StartsAs([ZeroRegisters EXCEPT ![x] = v],
                 MemPut(MemPut(FontMemory, p, 240 + x), p + 1, 10), 0, p)
  /\ beyond = [fill |-> "zero", toggled |-> {}]

(* The external input adapter presses or releases one key while the        *)
(* machine stands at the key-wait instruction.                             *)
KeyAdapter ==
  /\ pc + 1 < MEMORY_SIZE
  /\ IsFx0A(FetchWord(memory, pc))
  /\ \E k \in 0..15 :
        /\ keypad' = [keypad EXCEPT ![k] = 1 - @]
        /\ Cardinality(Pressed(keypad')) <= MaxPressed
  /\ lastOp' = "KeyAdapter"
  /\ UNCHANGED <<registers, memory, index, pc, stack, sp, delayTimer,
                 soundTimer, video, opcode, beyond, prev, acc, steps, input,
                 calls>>

CycleKeyWait ==
  /\ steps < MaxCycles
  /\ pc + 1 < MEMORY_SIZE
  /\ IsFx0A(FetchWord(memory, pc))
  /\ opcode' = FetchWord(memory, pc)
  /\ OP_Fx0A(FetchWord(memory, pc), FetchAdvance(pc))
  /\ Ran("OP_Fx0A", FetchWord(memory, pc))

NextKey == KeyAdapter \/ CycleKeyWait

SpecKey == InitKey /\ [][NextKey]_vars

(* C4: a cycle executing key-wait (OP_Fx0A) at address p with no key       *)
(* pressed ends with pc = p and Vx unchanged, so that the same instruction *)
(* is fetched again; a cycle executing it with a key pressed ends with     *)
(* pc = p + 2 and Vx = the lowest index of a pressed key.                  *)
C4_KeyWait ==
  lastOp = "OP_Fx0A" =>
     IF \A k \in 0..15 : prev.keypad[k] = 0
       THEN /\ pc = prev.pc
            /\ registers = prev.registers
            /\ FetchWord(memory, pc) = opcode
       ELSE /\ pc = prev.pc + 2
            /\ \E k \in 0..15 :
                  /\ prev.keypad[k] # 0
                  /\ \A j \in 0..k-1 : prev.keypad[j] = 0
                  /\ registers[X] = k
            /\ \A r \in RegIdx \ {X} : registers[r] = prev.registers[r]

(* A wait cycle with no key, then keys 9 and 3 pressed, then the cycle     *)
(* that ends the wait.                                                     *)
C4_Witness ==
  /\ lastOp = "OP_Fx0A" /\ steps >= 2
  /\ Pressed(prev.keypad) = {3, 9}
  /\ prev.registers[X] = 171
  /\ registers[X] = 3
  /\ pc = prev.pc + 2

---------------------------------------------------------------------------
(* Stores through memory[a].  For a < 4096 the byte goes to memory.  For   *)
(* a >= 4096 the store is outside the array (undefined behaviour); with    *)
(* `adj` it lands in the member that Chip8.h declares at that offset after *)
(* memory (index, pc, stack[16], sp, delayTimer, soundTimer, keypad[16],   *)
(* in this order, little-endian, unpadded), and without `adj` it has no    *)
(* visible effect.  `st` is a record of those members.                     *)

Members ==
  [memory |-> memory, index |-> index, pc |-> pc, stack |-> stack, sp |-> sp,
   delayTimer |-> delayTimer, soundTimer |-> soundTimer, keypad |-> keypad]

SetLow(w, v) == (w \div 256) * 256 + v
SetHigh(w, v) == v * 256 + (w % 256)

StoreByte_narrow(st, a, v, adj) ==
  [st EXCEPT !.memory = MemPut(@, a % 256, v)]

StoreByte(st, a, v, adj) ==
  IF a < MEMORY_SIZE THEN [st EXCEPT !.memory = MemPut(@, a, v)]
  ELSE IF ~adj THEN st
  ELSE LET k == a - MEMORY_SIZE
       IN  CASE k = 0 -> [st EXCEPT !.index = SetLow(@, v)]
             [] k = 1 -> [st EXCEPT !.index = SetHigh(@, v)]
             [] k = 2 -> [st EXCEPT !.pc = SetLow(@, v)]
             [] k = 3 -> [st EXCEPT !.pc = SetHigh(@, v)]
             [] k \in 4..35 ->
                  [st EXCEPT !.stack[(k - 4) \div 2] =
                      IF k % 2 = 0 THEN SetLow(@, v) ELSE SetHigh(@, v)]
             [] k = 36 -> [st EXCEPT !.sp = v]
             [] k = 37 -> [st EXCEPT !.delayTimer = v]
             [] k = 38 -> [st EXCEPT !.soundTimer = v]
             [] k \in 39..54 -> [st EXCEPT !.keypad[k - 39] = v]
             [] OTHER -> st

(* The members of the next state are those of st. *)
Becomes(st) ==
  /\ memory' = st.memory
  /\ index' = st.index
  /\ pc' = st.pc
  /\ stack' = st.stack
  /\ sp' = st.sp
  /\ delayTimer' = st.delayTimer
  /\ soundTimer' = st.soundTimer
  /\ keypad' = st.keypad

---------------------------------------------------------------------------
(* LoadROM *)

ToChar(b) == IF b > 127 THEN b - 256 ELSE b   \* file byte read into char buffer[i]
CharToU8_low7(c) == c % 128
CharToU8(c) == c % 256                        \* memory[...] = buffer[i]

(* The image of rom (a function on 0..size-1) as stored by the loop, for   *)
(* the part of it that falls inside memory.                                *)
LoadedInside(m, rom, size) ==
  LET last == IF START_ADDRESS + size > MEMORY_SIZE
                THEN MEMORY_SIZE - 1 ELSE START_ADDRESS + size - 1
      written == START_ADDRESS .. last
      byteAt(a) == CharToU8(ToChar(rom[a - START_ADDRESS]))
      nonzero == {a \in written : byteAt(a) # 0}
  IN  [a \in (DOMAIN m \ written) \cup nonzero |->
         IF a \in written THEN byteAt(a) ELSE m[a]]

(* The stores of the loop at START_ADDRESS + i >= 4096, in order. *)
RECURSIVE LoadedOutside(_, _, _, _, _)
LoadedOutside(st, rom, i, size, adj) ==
  IF i >= size THEN st
  ELSE LoadedOutside(StoreByte(st, START_ADDRESS + i, CharToU8(ToChar(rom[i])), adj),
                     rom, i + 1, size, adj)

(* Chip8::LoadROM has no test of size against the room in memory. *)
LoadROM(isOpen, rom, size, adj) ==
  IF isOpen
    THEN LET inside == [Members EXCEPT !.memory = LoadedInside(memory, rom, size)]
             st == LoadedOutside(inside, rom, MEMORY_SIZE - START_ADDRESS, size, adj)
         IN  /\ Becomes(st)
             /\ acc' = {<<"memory", START_ADDRESS + i>> : i \in 0..size-1}
             /\ UNCHANGED <<registers, video, opcode, beyond>>
    ELSE /\ acc' = {}
         /\ UNCHANGED machine

---------------------------------------------------------------------------
(* SpecLoad: LoadROM of a program image on the constructed machine.  The   *)
(* image of length size and seed s holds byte (s + 37 i) mod 256 at i.     *)

MaxOver == 5
MaxSmall == 3
MaxSeed == 23

RomByte(seed, i) == (seed + 37 * i) % 256

RomImage(size, seed) == [i \in 0..size-1 |-> RomByte(seed, i)]

LoadSizes ==
  (0..MaxSmall) \cup
  ((MEMORY_SIZE - START_ADDRESS - 1) .. (MEMORY_SIZE - START_ADDRESS + MaxOver))

InitLoad ==
  /\ Constructed
  /\ beyond = [fill |-> "zero", toggled |-> {}]

Load ==
  /\ steps = 0
  /\ \E isOpen \in BOOLEAN, size \in LoadSizes, seed \in 0..MaxSeed, adj \in BOOLEAN :
        /\ LoadROM(isOpen, RomImage(size, seed), size, adj)
        /\ Ran("LoadROM", [isOpen |-> isOpen, size |-> size, seed |-> seed])

NextLoad == Load

SpecLoad == InitLoad /\ [][NextLoad]_vars

MemoryAccesses == {a[2] : a \in {b \in acc : b[1] = "memory"}}

(* C3: LoadROM of an image longer than 4096 - 0x200 = 3584 bytes writes to *)
(* no address outside 0x200..0xFFF and leaves the reserved region          *)
(* 0x000..0x1FF and every member outside the memory array unchanged.       *)
C3_OversizeLoadStaysInside ==
  (lastOp = "LoadROM" /\ input.isOpen /\ input.size > MEMORY_SIZE - START_ADDRESS) =>
     /\ \A a \in MemoryAccesses : START_ADDRESS <= a /\ a < MEMORY_SIZE
     /\ \A a \in 0..START_ADDRESS-1 : Mem(memory, a) = Mem(FontMemory, a)
     /\ index = prev.index /\ pc = prev.pc /\ stack = prev.stack /\ sp = prev.sp

---------------------------------------------------------------------------
(* Call and return.  stack[i] for i >= 16 is outside the array: the store  *)
(* of OP_2nnn goes through StoreByte at the offset of stack[i] (stack      *)
(* starts 4 bytes after memory ends), and the load of OP_00EE yields one   *)
(* of OobWords.                                                            *)

OobWords == {0, 65535}

StackOffset(i) == MEMORY_SIZE + 4 + 2 * i

StoreWord(st, i, w, adj) ==
  IF i < STACK_SIZE THEN [st EXCEPT !.stack[i] = w]
  ELSE StoreByte(StoreByte(st, StackOffset(i), w % 256, adj),
                 StackOffset(i) + 1, w \div 256, adj)

OP_2nnn_preinc(op, pcNow, adj) ==
  LET address == OpNNN(op)
      bumped == [Members EXCEPT !.pc = pcNow, !.sp = U8(@ + 1)]            \* ++sp
      stored == StoreWord(bumped, bumped.sp, pcNow, adj)                   \* stack[sp] = pc
  IN  /\ Becomes([stored EXCEPT !.pc = address])
      /\ acc' = {<<"stack", bumped.sp>>}
      /\ UNCHANGED <<registers, video, beyond>>

(* pcNow is pc as the handler finds it. *)
OP_2nnn(op, pcNow, adj) ==
  LET address == OpNNN(op)
      stored == StoreWord([Members EXCEPT !.pc = pcNow], sp, pcNow, adj)   \* stack[sp] = pc
      bumped == [stored EXCEPT !.sp = U8(@ + 1)]                           \* ++sp
  IN  /\ Becomes([bumped EXCEPT !.pc = address])
      /\ acc' = {<<"stack", sp>>}
      /\ UNCHANGED <<registers, video, beyond>>

OP_00EE_top(oobWord) ==
  /\ sp' = U8(sp - 1)
  /\ pc' = IF sp < STACK_SIZE THEN stack[sp] ELSE oobWord     \* reads before --sp
  /\ acc' = {<<"stack", sp>>}
  /\ UNCHANGED <<registers, memory, index, stack, delayTimer, soundTimer,
                 keypad, video, beyond>>

OP_00EE(oobWord) ==
  LET slot == U8(sp - 1)                                                   \* --sp
  IN  /\ sp' = slot
      /\ pc' = IF slot < STACK_SIZE THEN stack[slot] ELSE oobWord          \* pc = stack[sp]
      /\ acc' = {<<"stack", slot>>}
      /\ UNCHANGED <<registers, memory, index, stack, delayTimer, soundTimer,
                     keypad, video, beyond>>

---------------------------------------------------------------------------
(* SpecStack: cycles executing Call and Return instructions, from the      *)
(* constructed machine.                                                    *)

MaxStackSteps == 18

CallTargets == {672}                \* 0x2A0

InitStack ==
  /\ Constructed
  /\ beyond = [fill |-> "zero", toggled |-> {}]

CycleCall ==
  /\ steps < MaxStackSteps
  /\ \E nnn \in CallTargets, adj \in BOOLEAN :
        LET op == 8192 + nnn                \* 0x2nnn
        IN  opcode' = op /\ OP_2nnn(op, FetchAdvance(pc), adj) /\ Ran("OP_2nnn", op)

CycleReturn ==
  /\ steps < MaxStackSteps
  /\ \E w \in OobWords :
        opcode' = 238 /\ OP_00EE(w) /\ Ran("OP_00EE", 238)   \* 0x00EE

NextStack == CycleCall \/ CycleReturn

SpecStack == InitStack /\ [][NextStack]_vars

StackAccesses == {a[2] : a \in {b \in acc : b[1] = "stack"}}

(* C7: after any sequence of Call (OP_2nnn) and Return (OP_00EE)           *)
(* instructions the stack pointer is within 0..16 and every stack slot     *)
(* read or written has an index within 0..15.                              *)
C7_StackInBounds ==
  /\ sp \in 0..STACK_SIZE
  /\ \A i \in StackAccesses : i \in 0..STACK_SIZE-1

---------------------------------------------------------------------------
(* Draw sprite.  Line 324 of Chip8.cpp reads `xPod + col`; the model takes *)
(* xPos, the only column variable of the handler.                          *)
(*                                                                         *)
(* video[c] for c >= 2048 is outside the array.  The words found there are *)
(* all zero or all some word that is neither 0 nor 0xFFFFFFFF              *)
(* (beyond.fill, fixed when the machine is built); beyond.toggled holds    *)
(* the cells past the end that OP_Dxyn has XORed an odd number of times.   *)

VIDEO_SIZE == VIDEO_WIDTH * VIDEO_HEIGHT

OobBytes == {0, 255}

(* video[(yPos + row) * VIDEO_WIDTH + (xPos + col)] *)
CellOf(yPos, row, xPos, col) == (yPos + row) * VIDEO_WIDTH + (xPos + col)

SpriteBit(spriteByte, col) == (spriteByte \div 2^(7 - col)) % 2   \* spriteByte & (0x80u >> col)

ReadByte(m, a, oobByte) == IF a < MEMORY_SIZE THEN Mem(m, a) ELSE oobByte

(* What a handler reading `count` bytes at `base` can find outside memory. *)
ReadChoices(base, count) == IF base + count > MEMORY_SIZE THEN OobBytes ELSE {0}

CellIsOn(cell) ==                   \* *screenPixel == 0xFFFFFFFF
  IF cell < VIDEO_SIZE THEN cell \in video
  ELSE beyond.fill = "zero" /\ cell \in beyond.toggled

(* The pixels <<cell, row, col>> of the sprite whose bit is on: those the  *)
(* two loops test and XOR.  Two pixels of one draw never share a cell      *)
(* (col < 8 < VIDEO_WIDTH), so each test sees the cell as it was before    *)
(* the draw and each cell is XORed once.                                   *)
SpritePixels(height, xPos, yPos, base, oobByte) ==
  {<<CellOf(yPos, p[1], xPos, p[2]), p[1], p[2]>> :
     p \in {q \in (0..height-1) \X (0..7) :
              SpriteBit(ReadByte(memory, base + q[1], oobByte), q[2]) # 0}}

SymDiff(S, T) == (S \ T) \cup (T \ S)

OP_Dxyn(op, oobByte) ==
  LET Vx == OpX(op)
      Vy == OpY(op)
      height == OpN(op)
      xPos == registers[Vx] % VIDEO_WIDTH
      yPos == registers[Vy] % VIDEO_HEIGHT
      pixels == SpritePixels(height, xPos, yPos, index, oobByte)
      cells == {p[1] : p \in pixels}
      collision == \E c \in cells : CellIsOn(c)
  IN  /\ registers' = [registers EXCEPT ![15] = IF collision THEN 1 ELSE 0]
      /\ video' = SymDiff(video, {c \in cells : c < VIDEO_SIZE})
      /\ beyond' = [beyond EXCEPT !.toggled = SymDiff(@, {c \in cells : c >= VIDEO_SIZE})]
      /\ acc' = {<<"video", p[1], p[2], p[3]>> : p \in pixels}
                 \cup {<<"memory", index + row>> : row \in 0..height-1}
      /\ UNCHANGED <<memory, index, pc, stack, sp, delayTimer, soundTimer, keypad>>

---------------------------------------------------------------------------
(* SpecDraw: on the constructed machine with an all-off display, a sprite  *)
(* (a glyph of the font, or bytes of a loaded program) is drawn at         *)
(* (V0, V1) by D01n, and then drawn again by the same instruction.         *)

MaxVx == 64
MaxVy == 32

DrawVx == (0..MaxVx) \cup {255}
DrawVy == (0..MaxVy) \cup {255}
DrawHeights == {0, 1, 5, 15}
ProgramSprite == <<129, 255, 1>>    \* 0x81, 0xFF, 0x01 loaded at 0x200
SpriteAt == {FONTSET_START_ADDRESS, FONTSET_START_ADDRESS + 5, START_ADDRESS}

DrawMemory ==
  [a \in DOMAIN FontMemory \cup (START_ADDRESS .. START_ADDRESS + 2) |->
     IF a >= START_ADDRESS THEN ProgramSprite[a - START_ADDRESS + 1] ELSE FontMemory[a]]

InitDraw ==
  /\ \E vx \in DrawVx, vy \in DrawVy, i \in SpriteAt :
        StartsAs([ZeroRegisters EXCEPT ![0] = vx, ![1] = vy], DrawMemory, i,
                 START_ADDRESS)
  /\ \E f \in {"zero", "other"} : beyond = [fill |-> f, toggled |-> {}]

DrawFirst ==
  /\ steps = 0
  /\ \E n \in DrawHeights :
        \E b \in ReadChoices(index, n) :
           LET op == 53264 + n              \* 0xD01n
           IN  opcode' = op /\ OP_Dxyn(op, b) /\ Ran("OP_Dxyn", op)

DrawAgain ==
  /\ steps = 1
  /\ \E b \in ReadChoices(index, OpN(opcode)) :
        opcode' = opcode /\ OP_Dxyn(opcode, b) /\ Ran("OP_Dxyn", opcode)

NextDraw == DrawFirst \/ DrawAgain

SpecDraw == InitDraw /\ [][NextDraw]_vars

VideoAccesses == {b \in acc : b[1] = "video"}

SpriteHasBit ==
  \E row \in 0..OpN(opcode)-1 : Mem(memory, index + row) # 0

(* C5: a sprite of height 1..15 with at least one bit on, drawn twice at   *)
(* the same (Vx, Vy) on an initially all-off display, leaves every display *)
(* cell off again, with VF = 0 after the first draw and VF = 1 after the   *)
(* second, for every value of Vx and Vy.                                   *)
C5_DrawTwiceClears ==
  (lastOp = "OP_Dxyn" /\ steps = 2 /\ OpN(opcode) >= 1 /\ SpriteHasBit) =>
     /\ video = {}
     /\ registers[15] = 1
     /\ prev.registers[15] = 0

(* C6: every display cell that OP_Dxyn reads or toggles has an index       *)
(* within 0..2047, and a sprite column past column 63 never toggles a cell *)
(* of the following row at column 0..6.                                    *)
C6_DrawStaysOnItsRows ==
  lastOp = "OP_Dxyn" =>
     \A b \in VideoAccesses :
        LET cell == b[2]
            row == b[3]
            col == b[4]
            xPos == prev.registers[X] % VIDEO_WIDTH
            yPos == prev.registers[Y] % VIDEO_HEIGHT
        IN  /\ cell \in 0..VIDEO_SIZE-1
            /\ (xPos + col >= VIDEO_WIDTH) =>
                  ~(cell \div VIDEO_WIDTH = yPos + row + 1 /\ cell % VIDEO_WIDTH \in 0..6)

---------------------------------------------------------------------------
(* The index register and the handlers that address memory through it.     *)
(* index + i is computed in int, so it is at most 65535 + 255 and is not   *)
(* reduced before it subscripts memory.                                    *)

OP_Annn(op) ==
  /\ index' = OpNNN(op)
  /\ acc' = {}
  /\ UNCHANGED <<registers, memory, pc, stack, sp, delayTimer, soundTimer,
                 keypad, video, beyond>>

OP_FX1E(op) ==
  /\ index' = U16(index + registers[OpX(op)])     \* index += registers[Vx]
  /\ acc' = {}
  /\ UNCHANGED <<registers, memory, pc, stack, sp, delayTimer, soundTimer,
                 keypad, video, beyond>>

OP_Fx33_swapped(op, adj) ==
  LET value == registers[OpX(op)]
      s1 == StoreByte(Members, index, value % 10, adj)
      s2 == StoreByte(s1, s1.index + 1, (value \div 10) % 10, adj)
      s3 == StoreByte(s2, s2.index + 2, ((value \div 10) \div 10) % 10, adj)
  IN  /\ Becomes(s3)
      /\ acc' = {<<"memory", index>>, <<"memory", s1.index + 1>>,
                 <<"memory", s2.index + 2>>}
      /\ UNCHANGED <<registers, video, beyond>>

(* The three stores of OP_Fx33, in the order of the code: ones, tens,      *)
(* hundreds.  Each subscript reads index as the stores before it left it.  *)
OP_Fx33(op, adj) ==
  LET value == registers[OpX(op)]
      s1 == StoreByte(Members, index + 2, value % 10, adj)
      s2 == StoreByte(s1, s1.index + 1, (value \div 10) % 10, adj)
      s3 == StoreByte(s2, s2.index, ((value \div 10) \div 10) % 10, adj)
  IN  /\ Becomes(s3)
      /\ acc' = {<<"memory", index + 2>>, <<"memory", s1.index + 1>>,
                 <<"memory", s2.index>>}
      /\ UNCHANGED <<registers, video, beyond>>

(* for (uint8_t i = 0; i <= Vx; ++i) memory[index + i] = registers[i];     *)
(* st.at collects the subscripts used.                                     *)
RECURSIVE DumpLoop(_, _, _, _)
DumpLoop(st, i, Vx, adj) ==
  IF i > Vx THEN st
  ELSE DumpLoop([StoreByte(st, st.index + i, registers[i], adj)
                   EXCEPT !.at = @ \cup {st.index + i}],
                i + 1, Vx, adj)

OP_Fx55_short(op, adj) ==
  LET st == DumpLoop([k \in DOMAIN Members \cup {"at"} |->
                        IF k = "at" THEN {} ELSE Members[k]], 0, OpX(op) - 1, adj)
  IN  /\ Becomes(st)
      /\ acc' = {<<"memory", a>> : a \in st.at}
      /\ UNCHANGED <<registers, video, beyond>>

OP_Fx55(op, adj) ==
  LET st == DumpLoop([k \in DOMAIN Members \cup {"at"} |->
                        IF k = "at" THEN {} ELSE Members[k]], 0, OpX(op), adj)
  IN  /\ Becomes(st)
      /\ acc' = {<<"memory", a>> : a \in st.at}
      /\ UNCHANGED <<registers, video, beyond>>

(* for (uint8_t i = 0; i <= Vx; ++i) registers[i] = memory[index + i]; *)
OP_Fx65(op, oobByte) ==
  LET Vx == OpX(op)
  IN  /\ registers' = [r \in RegIdx |->
                         IF r <= Vx THEN ReadByte(memory, index + r, oobByte)
                         ELSE registers[r]]
      /\ acc' = {<<"memory", index + i>> : i \in 0..Vx}
      /\ UNCHANGED <<memory, index, pc, stack, sp, delayTimer, soundTimer,
                     keypad, video, beyond>>

---------------------------------------------------------------------------
(* SpecMem: programs of Annn, Fx1E, Fx33, Fx55, Fx65 and Dxyn instructions *)
(* on a machine whose V0 holds a byte; the index register is set into the  *)
(* glyph table, into free memory and to the last addresses of memory.      *)

MaxMemSteps == 3

MemV0 == {255, 7}
(* 0x050 (the glyph table), 0x300, 0x350, 0xFFD, 0xFFE, 0xFFF *)
IndexTargets == {80, 768, 848, 4093, 4094, 4095}
MemX == {0, 2, 15}
MemHeights == {1, 15}

InitMem ==
  /\ \E v \in MemV0 :
        StartsAs([ZeroRegisters EXCEPT ![0] = v], FontMemory, 0, START_ADDRESS)
  /\ beyond = [fill |-> "other", toggled |-> {}]

SetIndex ==
  /\ steps < MaxMemSteps
  /\ \E nnn \in IndexTargets :
        LET op == 40960 + nnn               \* 0xAnnn
        IN  opcode' = op /\ OP_Annn(op) /\ Ran("OP_Annn", op)

AddToIndex ==
  /\ steps < MaxMemSteps
  /\ opcode' = 61470 /\ OP_FX1E(61470) /\ Ran("OP_FX1E", 61470)   \* 0xF01E

StoreBcd ==
  /\ steps < MaxMemSteps
  /\ \E adj \in BOOLEAN :
        opcode' = 61491 /\ OP_Fx33(61491, adj) /\ Ran("OP_Fx33", 61491)   \* 0xF033

DumpRegisters ==
  /\ steps < MaxMemSteps
  /\ \E x \in MemX, adj \in BOOLEAN :
        LET op == 61525 + 256 * x           \* 0xFx55
        IN  opcode' = op /\ OP_Fx55(op, adj) /\ Ran("OP_Fx55", op)

LoadRegisters ==
  /\ steps < MaxMemSteps
  /\ \E x \in MemX :
        \E b \in ReadChoices(index, x + 1) :
           LET op == 61541 + 256 * x        \* 0xFx65
           IN  opcode' = op /\ OP_Fx65(op, b) /\ Ran("OP_Fx65", op)

DrawFromIndex ==
  /\ steps < MaxMemSteps
  /\ \E n \in MemHeights :
        \E b \in ReadChoices(index, n) :
           LET op == 53264 + n              \* 0xD01n
           IN  opcode' = op /\ OP_Dxyn(op, b) /\ Ran("OP_Dxyn", op)

NextMem ==
  \/ SetIndex
  \/ AddToIndex
  \/ StoreBcd
  \/ DumpRegisters
  \/ LoadRegisters
  \/ DrawFromIndex

SpecMem == InitMem /\ [][NextMem]_vars

(* C10: every memory read or write of OP_Dxyn, OP_Fx33, OP_Fx55 and        *)
(* OP_Fx65 uses an address within 0..4095, for every value the index       *)
(* register reaches through OP_Annn and OP_FX1E.                           *)
C10_MemoryAddressesInRange ==
  lastOp \in {"OP_Dxyn", "OP_Fx33", "OP_Fx55", "OP_Fx65"} =>
     \A a \in MemoryAccesses : a \in 0..MEMORY_SIZE-1

---------------------------------------------------------------------------
(* The glyph table *)

(* index = FONTSET_START_ADDRESS + (5 * digit), digit = registers[Vx] *)
OP_Fx29(op) ==
  /\ index' = U16(FONTSET_START_ADDRESS + 5 * registers[OpX(op)])
  /\ acc' = {}
  /\ UNCHANGED <<registers, memory, pc, stack, sp, delayTimer, soundTimer,
                 keypad, video, beyond>>

GlyphTableIntact ==
  \A a \in DOMAIN FontMemory : Mem(memory, a) = FontMemory[a]

(* C11, as the specification states it: in every state reachable from      *)
(* construction by any sequence of instructions the 80 bytes at            *)
(* 0x50..0x9F equal the built-in glyph table.                              *)
C11_GlyphTableImmutable == GlyphTableIntact

(* C11, amended: a byte of the glyph table changes only in a step of       *)
(* OP_Fx33 or OP_Fx55 that stores at that byte's address; every other      *)
(* instruction, and every store elsewhere, leaves the table as it was.     *)
C11_GlyphTableChangesOnlyByStores ==
  [][\A a \in DOMAIN FontMemory :
        Mem(memory', a) # Mem(memory, a) =>
           /\ lastOp' \in {"OP_Fx33", "OP_Fx55"}
           /\ <<"memory", a>> \in acc']_vars

C11_Witness ==
  /\ lastOp = "OP_Fx55"
  /\ ~GlyphTableIntact
  /\ \E a \in DOMAIN FontMemory : <<"memory", a>> \in acc

---------------------------------------------------------------------------
(* SpecNest: a program of nested subroutines.  Subroutine k starts at      *)
(* 0x200 + 16 k; at its entry the machine either calls subroutine k + 1    *)
(* or returns, and after a return it returns again.  The deepest           *)
(* subroutine only returns.  Each cycle advances pc by 2 before its        *)
(* handler runs.                                                           *)

MaxNestSteps == 34
MaxNestDepth == 17

NestStride == 16

(* p is the entry of a subroutine that holds a Call. *)
AtEntry(p) ==
  /\ p % NestStride = 0
  /\ p >= START_ADDRESS
  /\ p < START_ADDRESS + NestStride * MaxNestDepth

InitNest ==
  /\ Constructed
  /\ beyond = [fill |-> "zero", toggled |-> {}]

(* The calls still open after a Call that found stack pointer s. *)
Pushed(c, p, s) ==
  IF c.ok /\ s < STACK_SIZE
    THEN [ok |-> TRUE, open |-> Append(c.open, [ret |-> U16(p + 2), sp |-> s])]
    ELSE [ok |-> FALSE, open |-> <<>>]

(* The calls still open after a Return. *)
Popped(c, s) ==
  IF c.ok /\ c.open # <<>> /\ s \in 1..STACK_SIZE
    THEN [ok |-> TRUE, open |-> SubSeq(c.open, 1, Len(c.open) - 1)]
    ELSE [ok |-> FALSE, open |-> <<>>]

NestCall ==
  /\ steps < MaxNestSteps
  /\ AtEntry(pc)
  /\ \E adj \in BOOLEAN :
        LET op == 8192 + pc + NestStride    \* 0x2nnn
        IN  /\ opcode' = op
            /\ OP_2nnn(op, FetchAdvance(pc), adj)
            /\ History("OP_2nnn", op)
            /\ calls' = Pushed(calls, pc, sp)

NestReturn ==
  /\ steps < MaxNestSteps
  /\ \E w \in OobWords :
        /\ opcode' = 238                    \* 0x00EE
        /\ OP_00EE(w)
        /\ History("OP_00EE", 238)
        /\ calls' = Popped(calls, sp)

NextNest == NestCall \/ NestReturn

SpecNest == InitNest /\ [][NextNest]_vars

Matching == calls.open[Len(calls.open)]

(* C12: a Call (OP_2nnn) fetched at address p saves p + 2 and sets         *)
(* pc = nnn; the matching Return (OP_00EE) sets pc = p + 2 and restores    *)
(* the stack pointer to its value before the call; with calls nested up to *)
(* depth 16, successive returns restore the return addresses last-in       *)
(* first-out.                                                              *)
C12_CallReturnRoundTrip ==
  [][/\ (lastOp' = "OP_2nnn" /\ calls'.ok) =>
           /\ pc' = OpNNN(opcode')
           /\ stack'[sp] = U16(pc + 2)
           /\ sp' = sp + 1
     /\ (lastOp' = "OP_00EE" /\ calls'.ok) =>
           /\ pc' = Matching.ret
           /\ sp' = Matching.sp]_vars

(* Sixteen nested calls have all returned. *)
C12_Witness ==
  /\ lastOp = "OP_00EE"
  /\ calls = [ok |-> TRUE, open |-> <<>>]
  /\ steps = 2 * STACK_SIZE
  /\ pc = START_ADDRESS + 2
  /\ sp = 0

---------------------------------------------------------------------------
(* SpecBcd: OP_Fx33 on a machine whose V0 holds any byte v (and VF its     *)
(* complement), with the index register inside the glyph table, in free    *)
(* memory and at the last addresses of memory.                             *)

InitBcd ==
  /\ \E v \in Byte, i \in {80, 768, 4093, 4094} :
        StartsAs([ZeroRegisters EXCEPT ![0] = v, ![15] = 255 - v],
                 FontMemory, i, START_ADDRESS)
  /\ beyond = [fill |-> "other", toggled |-> {}]

Bcd ==
  /\ steps = 0
  /\ \E x \in {0, 15}, adj \in BOOLEAN :
        LET op == 61491 + 256 * x           \* 0xFx33
        IN  opcode' = op /\ OP_Fx33(op, adj) /\ Ran("OP_Fx33", op)

NextBcd == Bcd

SpecBcd == InitBcd /\ [][NextBcd]_vars

(* C13: OP_Fx33 on Vx = v (0..255) with I + 2 <= 4095 leaves               *)
(* memory[I] = v div 100, memory[I + 1] = (v div 10) mod 10 and            *)
(* memory[I + 2] = v mod 10, and changes neither Vx, nor the index         *)
(* register, nor any other byte of memory.                                 *)
C13_StoreBcd ==
  (lastOp = "OP_Fx33" /\ prev.index + 2 <= MEMORY_SIZE - 1) =>
     LET v == VxBefore
         I == prev.index
     IN  /\ Mem(memory, I) = v \div 100
         /\ Mem(memory, I + 1) = (v \div 10) % 10
         /\ Mem(memory, I + 2) = v % 10
         /\ registers = prev.registers
         /\ index = I
         /\ \A a \in (DOMAIN memory \cup DOMAIN FontMemory) \ {I, I + 1, I + 2} :
               Mem(memory, a) = Mem(FontMemory, a)

C13_Witness ==
  /\ lastOp = "OP_Fx33"
  /\ VxBefore = 255
  /\ prev.index = 4093
  /\ Mem(memory, 4093) = 2 /\ Mem(memory, 4094) = 5 /\ Mem(memory, 4095) = 5

---------------------------------------------------------------------------
(* Loads that fit *)

Room == MEMORY_SIZE - START_ADDRESS         \* 3584 bytes from 0x200 to 0xFFF

(* C14: LoadROM of an image of n <= 3584 bytes places byte i of the image, *)
(* as an unsigned 8-bit value, at memory[0x200 + i] for every i in         *)
(* 0..n-1 and leaves every other byte of memory, the glyph table included, *)
(* unchanged; an image of exactly 3584 bytes is loaded whole.              *)
C14_LoadWithinBounds ==
  (lastOp = "LoadROM" /\ input.isOpen /\ input.size <= Room) =>
     LET loaded == START_ADDRESS .. START_ADDRESS + input.size - 1
     IN  /\ \A i \in 0..input.size-1 :
               Mem(memory, START_ADDRESS + i) = RomByte(input.seed, i)
         /\ \A a \in (DOMAIN memory \cup DOMAIN FontMemory) \ loaded :
               Mem(memory, a) = Mem(FontMemory, a)
         /\ MemoryAccesses = loaded

C14_Witness ==
  /\ lastOp = "LoadROM"
  /\ input.isOpen
  /\ input.size = Room
  /\ Mem(memory, MEMORY_SIZE - 1) > 127
  /\ Mem(memory, FONTSET_START_ADDRESS) = 240

---------------------------------------------------------------------------
(* The remaining handlers *)

(* memset(video, 0, sizeof(video)): the cells it stores 0 in.  With the    *)
(* element count in place of sizeof it would clear a quarter of them.      *)
ClearedCells_count == 0 .. (VIDEO_SIZE \div 4) - 1
ClearedCells == 0 .. VIDEO_SIZE - 1

OP_00E0 ==
  /\ video' = video \ ClearedCells
  /\ acc' = {<<"video", c, c \div VIDEO_WIDTH, c % VIDEO_WIDTH>> : c \in ClearedCells}
  /\ UNCHANGED <<registers, memory, index, pc, stack, sp, delayTimer,
                 soundTimer, keypad, beyond>>

OP_1nnn_low(op) ==
  /\ pc' = OpKK(op)
  /\ acc' = {}
  /\ UNCHANGED <<registers, memory, index, stack, sp, delayTimer, soundTimer,
                 keypad, video, beyond>>

OP_1nnn(op) ==
  /\ pc' = OpNNN(op)
  /\ acc' = {}
  /\ UNCHANGED <<registers, memory, index, stack, sp, delayTimer, soundTimer,
                 keypad, video, beyond>>

OP_5xy0(op) ==
  /\ pc' = IF registers[OpX(op)] = registers[OpY(op)] THEN U16(pc + 2) ELSE pc
  /\ acc' = {}
  /\ UNCHANGED <<registers, memory, index, stack, sp, delayTimer, soundTimer,
                 keypad, video, beyond>>

OP_9xy0(op) ==
  /\ pc' = IF registers[OpX(op)] # registers[OpY(op)] THEN U16(pc + 2) ELSE pc
  /\ acc' = {}
  /\ UNCHANGED <<registers, memory, index, stack, sp, delayTimer, soundTimer,
                 keypad, video, beyond>>

OP_Bnnn(op) ==
  /\ pc' = U16(registers[0] + OpNNN(op))
  /\ acc' = {}
  /\ UNCHANGED <<registers, memory, index, stack, sp, delayTimer, soundTimer,
                 keypad, video, beyond>>

(* A handler that only assigns registers[Vx]. *)
SetVx(op, v) ==
  /\ registers' = [registers EXCEPT ![OpX(op)] = v]
  /\ acc' = {}
  /\ UNCHANGED <<memory, index, pc, stack, sp, delayTimer, soundTimer,
                 keypad, video, beyond>>

BitOf(v, i) == (v \div (2 ^ i)) % 2

BitOp(kind, p, q) ==
  CASE kind = "or" -> IF p + q > 0 THEN 1 ELSE 0
    [] kind = "and" -> p * q
    [] kind = "xor" -> (p + q) % 2

(* The byte whose bit i is bit i of a, combined with bit i of b. *)
Bitwise(kind, a, b) ==
  LET t(i) == BitOp(kind, BitOf(a, i), BitOf(b, i)) * (2 ^ i)
  IN  t(0) + t(1) + t(2) + t(3) + t(4) + t(5) + t(6) + t(7)

OP_6xkk(op) == SetVx(op, OpKK(op))
OP_7xkk(op) == SetVx(op, U8(registers[OpX(op)] + OpKK(op)))
OP_8xy0(op) == SetVx(op, registers[OpY(op)])
OP_8xy1(op) == SetVx(op, Bitwise("or", registers[OpX(op)], registers[OpY(op)]))
OP_8xy2(op) == SetVx(op, Bitwise("and", registers[OpX(op)], registers[OpY(op)]))
OP_8xy3(op) == SetVx(op, Bitwise("xor", registers[OpX(op)], registers[OpY(op)]))

(* randByte(randGen) yields some byte rnd. *)
OP_Cxkk(op, rnd) == SetVx(op, Bitwise("and", rnd, OpKK(op)))

OP_Fx07(op) == SetVx(op, delayTimer)

(* The registers after the flag is assigned to VF; the assignment of      *)
(* registers[Vx] that follows reads them.                                  *)
Flagged(flag) == [registers EXCEPT ![15] = flag]

SetRegisters(regs) ==
  /\ registers' = regs
  /\ acc' = {}
  /\ UNCHANGED <<memory, index, pc, stack, sp, delayTimer, soundTimer,
                 keypad, video, beyond>>

OP_8xy6(op) ==
  LET Vx == OpX(op)
      flagged == Flagged(registers[Vx] % 2)
  IN  SetRegisters([flagged EXCEPT ![Vx] = flagged[Vx] \div 2])       \* >>= 1

OP_8xy7(op) ==
  LET Vx == OpX(op)
      Vy == OpY(op)
      flagged == Flagged(IF registers[Vy] > registers[Vx] THEN 1 ELSE 0)
  IN  SetRegisters([flagged EXCEPT ![Vx] = U8(flagged[Vy] - flagged[Vx])])

OP_8xyE(op) ==
  LET Vx == OpX(op)
      flagged == Flagged((registers[Vx] \div 128) % 2)
  IN  SetRegisters([flagged EXCEPT ![Vx] = U8(flagged[Vx] * 2)])        \* <<= 1

OP_Fx15(op) ==
  /\ delayTimer' = registers[OpX(op)]
  /\ acc' = {}
  /\ UNCHANGED <<registers, memory, index, pc, stack, sp, soundTimer, keypad,
                 video, beyond>>

OP_Fx18(op) ==
  /\ soundTimer' = registers[OpX(op)]
  /\ acc' = {}
  /\ UNCHANGED <<registers, memory, index, pc, stack, sp, delayTimer, keypad,
                 video, beyond>>

(* keypad[key] for key = registers[Vx], any byte: for key >= 16 the read   *)
(* is outside keypad[16] and yields some byte oobByte.                     *)
KeyRead(key, oobByte) == IF key < 16 THEN keypad[key] ELSE oobByte

KeySkip(op, oobByte, whenPressed) ==
  LET key == registers[OpX(op)]
      pressed == KeyRead(key, oobByte) # 0
  IN  /\ pc' = IF pressed = whenPressed THEN U16(pc + 2) ELSE pc
      /\ acc' = {<<"keypad", key>>}
      /\ UNCHANGED <<registers, memory, index, stack, sp, delayTimer,
                     soundTimer, keypad, video, beyond>>

OP_Ex9E(op, oobByte) == KeySkip(op, oobByte, TRUE)      \* if (keypad[key])
OP_Exa1(op, oobByte) == KeySkip(op, oobByte, FALSE)     \* if (!keypad[key])

---------------------------------------------------------------------------
(* SpecStep: one handler, any of the 34, run on a machine that earlier     *)
(* instructions have prepared: registers loaded (OP_6xkk), index set       *)
(* (OP_Annn), subroutines entered (OP_2nnn, as in SpecNest), timers set    *)
(* (OP_Fx15, OP_Fx18), a key held down, and pixels drawn (OP_Dxyn).  There *)
(* is one action for each format of instruction word.                      *)

(* The stack after `depth` nested calls of the program of SpecNest. *)
OpenCalls(depth) ==
  [s \in 0..STACK_SIZE-1 |->
     IF s < depth THEN START_ADDRESS + NestStride * s + 2 ELSE 0]

InitStep ==
  /\ \E v \in {5, 200} : registers = [ZeroRegisters EXCEPT ![0] = v, ![1] = 3]
  /\ memory = FontMemory
  /\ index \in {80, 4094}
  /\ \E depth \in {0, 1, STACK_SIZE} :
        /\ sp = depth
        /\ stack = OpenCalls(depth)
        /\ pc = START_ADDRESS + NestStride * depth + 2
  /\ \E t \in {<<0, 0>>, <<9, 4>>} : delayTimer = t[1] /\ soundTimer = t[2]
  /\ \E held \in {{}, {5}} : keypad = [k \in 0..15 |-> IF k \in held THEN 1 ELSE 0]
  /\ video \in {{}, {0, 2047}}
  /\ beyond = [fill |-> "other", toggled |-> {}]
  /\ opcode = 0
  /\ lastOp = "Chip8"
  /\ prev = Snapshot
  /\ acc = {}
  /\ steps = 0
  /\ input = 0
  /\ calls = [ok |-> TRUE, open |-> <<>>]

(* The step that runs `handler`, named `name`, on instruction word op. *)
Runs(op, handler, name) == opcode' = op /\ handler /\ Ran(name, op)

(* 00E0, 00EE *)
RunPlain ==
  /\ steps = 0
  /\ \/ Runs(224, OP_00E0, "OP_00E0")
     \/ \E w \in OobWords : Runs(238, OP_00EE(w), "OP_00EE")

(* 1nnn, 2nnn, Annn, Bnnn *)
RunAddress ==
  /\ steps = 0
  /\ \E nnn \in {672, 4095} :
        \/ Runs(4096 + nnn, OP_1nnn(4096 + nnn), "OP_1nnn")
        \/ \E adj \in BOOLEAN : Runs(8192 + nnn, OP_2nnn(8192 + nnn, pc, adj), "OP_2nnn")
        \/ Runs(40960 + nnn, OP_Annn(40960 + nnn), "OP_Annn")
        \/ Runs(45056 + nnn, OP_Bnnn(45056 + nnn), "OP_Bnnn")

(* 3xkk, 4xkk, 6xkk, 7xkk, Cxkk *)
RunImmediate ==
  /\ steps = 0
  /\ \E x \in {0, 15}, kk \in {5, 200} :
        LET xkk == 256 * x + kk
        IN  \/ Runs(12288 + xkk, OP_3xkk(12288 + xkk), "OP_3xkk")
            \/ Runs(16384 + xkk, OP_4xkk(16384 + xkk), "OP_4xkk")
            \/ Runs(24576 + xkk, OP_6xkk(24576 + xkk), "OP_6xkk")
            \/ Runs(28672 + xkk, OP_7xkk(28672 + xkk), "OP_7xkk")
            \/ \E rnd \in {0, 255} :
                  Runs(49152 + xkk, OP_Cxkk(49152 + xkk, rnd), "OP_Cxkk")

(* 5xy0, 8xy0 .. 8xyE, 9xy0, Dxyn *)
RunRegisters ==
  /\ steps = 0
  /\ \E x \in {0, 15} :
        LET xy == 256 * x + 16              \* y = 1
        IN  \/ Runs(20480 + xy, OP_5xy0(20480 + xy), "OP_5xy0")
            \/ Runs(32768 + xy, OP_8xy0(32768 + xy), "OP_8xy0")
            \/ Runs(32769 + xy, OP_8xy1(32769 + xy), "OP_8xy1")
            \/ Runs(32770 + xy, OP_8xy2(32770 + xy), "OP_8xy2")
            \/ Runs(32771 + xy, OP_8xy3(32771 + xy), "OP_8xy3")
            \/ Runs(32772 + xy, OP_8xy4(32772 + xy), "OP_8xy4")
            \/ Runs(32773 + xy, OP_8xy5(32773 + xy), "OP_8xy5")
            \/ Runs(32774 + xy, OP_8xy6(32774 + xy), "OP_8xy6")
            \/ Runs(32775 + xy, OP_8xy7(32775 + xy), "OP_8xy7")
            \/ Runs(32782 + xy, OP_8xyE(32782 + xy), "OP_8xyE")
            \/ Runs(36864 + xy, OP_9xy0(36864 + xy), "OP_9xy0")
            \/ \E n \in {1, 5} :
                  \E b \in ReadChoices(index, n) :
                     Runs(53248 + xy + n, OP_Dxyn(53248 + xy + n, b), "OP_Dxyn")

(* Ex9E, ExA1, Fx07 .. Fx65 *)
RunRegister ==
  /\ steps = 0
  /\ \E x \in {0, 15} :
        LET x00 == 256 * x
        IN  \/ \E b \in OobBytes : Runs(57502 + x00, OP_Ex9E(57502 + x00, b), "OP_Ex9E")
            \/ \E b \in OobBytes : Runs(57505 + x00, OP_Exa1(57505 + x00, b), "OP_Exa1")
            \/ Runs(61447 + x00, OP_Fx07(61447 + x00), "OP_Fx07")
            \/ Runs(61450 + x00, OP_Fx0A(61450 + x00, pc), "OP_Fx0A")
            \/ Runs(61461 + x00, OP_Fx15(61461 + x00), "OP_Fx15")
            \/ Runs(61464 + x00, OP_Fx18(61464 + x00), "OP_Fx18")
            \/ Runs(61470 + x00, OP_FX1E(61470 + x00), "OP_FX1E")
            \/ Runs(61481 + x00, OP_Fx29(61481 + x00), "OP_Fx29")
            \/ \E adj \in BOOLEAN : Runs(61491 + x00, OP_Fx33(61491 + x00, adj), "OP_Fx33")
            \/ \E adj \in BOOLEAN : Runs(61525 + x00, OP_Fx55(61525 + x00, adj), "OP_Fx55")
            \/ \E b \in ReadChoices(index, x + 1) :
                  Runs(61541 + x00, OP_Fx65(61541 + x00, b), "OP_Fx65")

NextStep ==
  \/ RunPlain
  \/ RunAddress
  \/ RunImmediate
  \/ RunRegisters
  \/ RunRegister

SpecStep == InitStep /\ [][NextStep]_vars

(* C15: the handlers never count the timers down: delayTimer changes only  *)
(* in OP_Fx15, which sets it to Vx, and soundTimer only in OP_Fx18, which  *)
(* sets it to Vx; every other handler leaves both timers unchanged, and    *)
(* OP_Fx07 copies delayTimer into Vx without changing it.                  *)
C15_TimersChangeOnlyWhenSet ==
  /\ lastOp = "OP_Fx15" => delayTimer = VxBefore
  /\ lastOp = "OP_Fx18" => soundTimer = VxBefore
  /\ lastOp # "OP_Fx15" => delayTimer = prev.delayTimer
  /\ lastOp # "OP_Fx18" => soundTimer = prev.soundTimer
  /\ lastOp = "OP_Fx07" => registers[X] = prev.delayTimer

---------------------------------------------------------------------------
(* SpecJump: OP_1nnn for every nnn, on a prepared machine (one call open,  *)
(* both timers running, key 5 held, two pixels lit) whose pc is at the     *)
(* start of the program, after an instruction, at the end of memory, or    *)
(* past it (as OP_Bnnn can leave it).                                      *)

JumpVideo == {0, 2047}

InitJump ==
  /\ registers = [ZeroRegisters EXCEPT ![0] = 255, ![15] = 1]
  /\ memory = FontMemory
  /\ index = 768
  /\ pc \in {512, 514, 4094, 4350}
  /\ sp = 1
  /\ stack = OpenCalls(1)
  /\ delayTimer = 9
  /\ soundTimer = 4
  /\ keypad = [k \in 0..15 |-> IF k = 5 THEN 1 ELSE 0]
  /\ video = JumpVideo
  /\ beyond = [fill |-> "other", toggled |-> {}]
  /\ opcode = 0
  /\ lastOp = "Chip8"
  /\ prev = Snapshot
  /\ acc = {}
  /\ steps = 0
  /\ input = 0
  /\ calls = [ok |-> TRUE, open |-> <<>>]

Jump ==
  /\ steps = 0
  /\ \E nnn \in 0..4095 :
        LET op == 4096 + nnn                \* 0x1nnn
        IN  opcode' = op /\ OP_1nnn(op) /\ Ran("OP_1nnn", op)

NextJump == Jump

SpecJump == InitJump /\ [][NextJump]_vars

(* C16: OP_1nnn sets pc to exactly nnn whatever pc was before, and changes *)
(* no other register, timer, stack slot, memory byte or display cell.      *)
C16_JumpSetsOnlyPc ==
  lastOp = "OP_1nnn" =>
     /\ pc = input - 4096
     /\ registers = prev.registers
     /\ index = prev.index
     /\ stack = prev.stack
     /\ sp = prev.sp
     /\ delayTimer = prev.delayTimer
     /\ soundTimer = prev.soundTimer
     /\ keypad = prev.keypad
     /\ memory = FontMemory
     /\ video = JumpVideo
     /\ beyond.toggled = {}

C16_Witness ==
  /\ lastOp = "OP_1nnn"
  /\ prev.pc = 4350
  /\ pc = 4095
  /\ delayTimer = 9

---------------------------------------------------------------------------
(* SpecClear: programs that move the sprite position (OP_6xkk on V0 or     *)
(* V1), draw glyphs (D01n) and clear the display (OP_00E0), on a machine   *)
(* with a call open, both timers running and key 5 held.                   *)

MaxClearSteps == 4

InitClear ==
  /\ registers = ZeroRegisters
  /\ memory = FontMemory
  /\ index = FONTSET_START_ADDRESS
  /\ pc = START_ADDRESS + NestStride + 2
  /\ sp = 1
  /\ stack = OpenCalls(1)
  /\ delayTimer = 9
  /\ soundTimer = 4
  /\ keypad = [k \in 0..15 |-> IF k = 5 THEN 1 ELSE 0]
  /\ video = {}
  /\ beyond = [fill |-> "other", toggled |-> {}]
  /\ opcode = 0
  /\ lastOp = "Chip8"
  /\ prev = Snapshot
  /\ acc = {}
  /\ steps = 0
  /\ input = 0
  /\ calls = [ok |-> TRUE, open |-> <<>>]

ClearMoveColumn ==
  /\ steps < MaxClearSteps
  /\ \E kk \in {0, 30, 62} :
        LET op == 24576 + kk                \* 0x60kk
        IN  opcode' = op /\ OP_6xkk(op) /\ Ran("OP_6xkk", op)

ClearMoveRow ==
  /\ steps < MaxClearSteps
  /\ \E kk \in {0, 27} :
        LET op == 24832 + kk                \* 0x61kk
        IN  opcode' = op /\ OP_6xkk(op) /\ Ran("OP_6xkk", op)

ClearDraw ==
  /\ steps < MaxClearSteps
  /\ \E n \in {1, 5} :
        \E b \in ReadChoices(index, n) :
           LET op == 53264 + n              \* 0xD01n
           IN  opcode' = op /\ OP_Dxyn(op, b) /\ Ran("OP_Dxyn", op)

ClearScreen ==
  /\ steps < MaxClearSteps
  /\ opcode' = 224 /\ OP_00E0 /\ Ran("OP_00E0", 224)      \* 0x00E0

NextClear ==
  \/ ClearMoveColumn
  \/ ClearMoveRow
  \/ ClearDraw
  \/ ClearScreen

SpecClear == InitClear /\ [][NextClear]_vars

(* C17: OP_00E0, from any display state, leaves all 2048 cells off and     *)
(* changes nothing but the display.                                        *)
C17_ClearScreen ==
  [][lastOp' = "OP_00E0" =>
        /\ video' = {}
        /\ UNCHANGED <<registers, memory, index, pc, stack, sp, delayTimer,
                       soundTimer, keypad, beyond>>]_vars

(* The display is cleared right after a glyph was drawn on rows 27..31     *)
(* without collision.                                                      *)
C17_Witness ==
  /\ lastOp = "OP_00E0"
  /\ video = {}
  /\ prev.opcode = 53269
  /\ prev.registers[15] = 0
  /\ prev.registers[1] = 27

---------------------------------------------------------------------------
(* SpecFlag: one flag-producing handler (8xy4, 8xy5, 8xy6, 8xy7, 8xyE,     *)
(* Dxy1) with x and y among 0, 1 and 0xF, on a machine whose V0 holds any  *)
(* byte and whose V1 and VF hold bytes of each kind; the display is        *)
(* all-off or all-on, and index is at glyph '0' (first row 0xF0).          *)

InitFlag ==
  /\ \E a \in Byte, b \in {0, 1, 128, 255}, f \in {0, 1, 3, 129, 254} :
        registers = [ZeroRegisters EXCEPT ![0] = a, ![1] = b, ![15] = f]
  /\ memory = FontMemory
  /\ index = FONTSET_START_ADDRESS
  /\ pc = START_ADDRESS + 2
  /\ sp = 0
  /\ stack = OpenCalls(0)
  /\ delayTimer = 0
  /\ soundTimer = 0
  /\ keypad = [k \in 0..15 |-> 0]
  /\ video \in {{}, 0 .. VIDEO_SIZE - 1}
  /\ beyond = [fill |-> "other", toggled |-> {}]
  /\ opcode = 0
  /\ lastOp = "Chip8"
  /\ prev = Snapshot
  /\ acc = {}
  /\ steps = 0
  /\ input = 0
  /\ calls = [ok |-> TRUE, open |-> <<>>]

FlagAdd ==
  /\ steps = 0
  /\ \E x \in {0, 15}, y \in {0, 1, 15} :
        LET op == AluWord(32772, x, y)      \* 0x8xy4
        IN  opcode' = op /\ OP_8xy4(op) /\ Ran("OP_8xy4", op)

FlagSub ==
  /\ steps = 0
  /\ \E x \in {0, 15}, y \in {0, 1, 15} :
        LET op == AluWord(32773, x, y)      \* 0x8xy5
        IN  opcode' = op /\ OP_8xy5(op) /\ Ran("OP_8xy5", op)

FlagShr ==
  /\ steps = 0
  /\ \E x \in {0, 15}, y \in {0, 1, 15} :
        LET op == AluWord(32774, x, y)      \* 0x8xy6
        IN  opcode' = op /\ OP_8xy6(op) /\ Ran("OP_8xy6", op)

FlagSubn ==
  /\ steps = 0
  /\ \E x \in {0, 15}, y \in {0, 1, 15} :
        LET op == AluWord(32775, x, y)      \* 0x8xy7
        IN  opcode' = op /\ OP_8xy7(op) /\ Ran("OP_8xy7", op)

FlagShl ==
  /\ steps = 0
  /\ \E x \in {0, 15}, y \in {0, 1, 15} :
        LET op == AluWord(32782, x, y)      \* 0x8xyE
        IN  opcode' = op /\ OP_8xyE(op) /\ Ran("OP_8xyE", op)

FlagDraw ==
  /\ steps = 0
  /\ \E x \in {0, 15}, y \in {0, 1, 15} :
        \E b \in ReadChoices(index, 1) :
           LET op == AluWord(53249, x, y)   \* 0xDxy1
           IN  opcode' = op /\ OP_Dxyn(op, b) /\ Ran("OP_Dxyn", op)

NextFlag ==
  \/ FlagAdd
  \/ FlagSub
  \/ FlagShr
  \/ FlagSubn
  \/ FlagShl
  \/ FlagDraw

SpecFlag == InitFlag /\ [][NextFlag]_vars

Flag(b) == IF b THEN 1 ELSE 0

(* The cells of the display that the draw toggled off. *)
ToggledOff == {a \in VideoAccesses : a[2] < VIDEO_SIZE /\ a[2] \notin video}

(* C18: after each flag-producing instruction, for every x and y           *)
(* (x = 0xF included), VF holds the flag that the instruction computed:    *)
(* carry (8xy4), no-borrow (8xy5, 8xy7), the bit shifted out (8xy6, 8xyE), *)
(* collision (Dxyn); so VF is 0 or 1.                                      *)
C18_FlagInVF ==
  /\ lastOp = "OP_8xy4" => registers[15] = Flag(VxBefore + VyBefore > 255)
  /\ lastOp = "OP_8xy5" => registers[15] = Flag(VxBefore > VyBefore)
  /\ lastOp = "OP_8xy6" => registers[15] = VxBefore % 2
  /\ lastOp = "OP_8xy7" => registers[15] = Flag(VyBefore > VxBefore)
  /\ lastOp = "OP_8xyE" => registers[15] = VxBefore \div 128
  /\ (lastOp = "OP_Dxyn" /\ \A a \in VideoAccesses : a[2] < VIDEO_SIZE) =>
        registers[15] = Flag(ToggledOff # {})
  /\ lastOp \in {"OP_8xy4", "OP_8xy5", "OP_8xy6", "OP_8xy7", "OP_8xyE",
                 "OP_Dxyn"} => registers[15] \in {0, 1}

---------------------------------------------------------------------------
(* The order of store and increment *)

(* The return address a Call saves: pc after the cycle advanced it. *)
ReturnAddress == FetchAdvance(prev.pc)

---------------------------------------------------------------------------
(* SpecKeySkip: OP_Ex9E or OP_Exa1 on V0, which holds any byte, with no    *)
(* key, one key, the two end keys or every key held down.                  *)

InitKeySkip ==
  /\ \E v \in Byte : registers = [ZeroRegisters EXCEPT ![0] = v]
  /\ memory = FontMemory
  /\ index = 0
  /\ pc = START_ADDRESS + 2
  /\ sp = 0
  /\ stack = OpenCalls(0)
  /\ delayTimer = 0
  /\ soundTimer = 0
  /\ \E held \in {{}, {5}, {0, 15}, 0..15} : keypad = [k \in 0..15 |-> IF k \in held THEN 1 ELSE 0]
  /\ video = {}
  /\ beyond = [fill |-> "other", toggled |-> {}]
  /\ opcode = 0
  /\ lastOp = "Chip8"
  /\ prev = Snapshot
  /\ acc = {}
  /\ steps = 0
  /\ input = 0
  /\ calls = [ok |-> TRUE, open |-> <<>>]

(* The bytes a read of keypad[key] can yield that make a difference. *)
KeyReadChoices(key) == IF key < 16 THEN {0} ELSE OobBytes

SkipIfKey ==
  /\ steps = 0
  /\ \E b \in KeyReadChoices(registers[0]) :
        opcode' = 57502 /\ OP_Ex9E(57502, b) /\ Ran("OP_Ex9E", 57502)   \* 0xE09E

SkipIfNotKey ==
  /\ steps = 0
  /\ \E b \in KeyReadChoices(registers[0]) :
        opcode' = 57505 /\ OP_Exa1(57505, b) /\ Ran("OP_Exa1", 57505)   \* 0xE0A1

NextKeySkip == SkipIfKey \/ SkipIfNotKey

SpecKeySkip == InitKeySkip /\ [][NextKeySkip]_vars

KeypadAccesses == {a[2] : a \in {b \in acc : b[1] = "keypad"}}

(* C20: OP_Ex9E and OP_Exa1 read only keypad slots 0..15, for every byte   *)
(* in Vx, and advance pc by 2 exactly when the key they read is pressed    *)
(* (Ex9E) or not pressed (ExA1).                                           *)
C20_KeySkipReadsKeypad ==
  lastOp \in {"OP_Ex9E", "OP_Exa1"} =>
     /\ KeypadAccesses # {}
     /\ \A k \in KeypadAccesses :
           /\ k \in 0..15
           /\ lastOp = "OP_Ex9E" =>
                 pc = IF keypad[k] # 0 THEN U16(prev.pc + 2) ELSE prev.pc
           /\ lastOp = "OP_Exa1" =>
                 pc = IF keypad[k] = 0 THEN U16(prev.pc + 2) ELSE prev.pc

---------------------------------------------------------------------------
(* SpecRoundTrip: OP_Fx55 for any x, followed by OP_Fx65 with the same x,  *)
(* on a machine whose sixteen registers hold different bytes (as OP_6xkk   *)
(* can load them) and whose index register is in the glyph table, in free  *)
(* memory, 15 below the last address of memory, or at the last address.    *)

RegisterPattern(seed) == [r \in RegIdx |-> (seed + 17 * r) % 256]

InitRoundTrip ==
  /\ \E seed \in {1, 100}, i \in {80, 768, 4080, 4095} :
        StartsAs(RegisterPattern(seed), FontMemory, i, START_ADDRESS)
  /\ beyond = [fill |-> "other", toggled |-> {}]

RoundTripDump ==
  /\ steps = 0
  /\ \E x \in RegIdx, adj \in BOOLEAN :
        LET op == 61525 + 256 * x           \* 0xFx55
        IN  opcode' = op /\ OP_Fx55(op, adj) /\ Ran("OP_Fx55", op)

RoundTripLoad ==
  /\ steps = 1
  /\ \E b \in ReadChoices(index, OpX(opcode) + 1) :
        LET op == 61541 + 256 * OpX(opcode) \* 0xFx65
        IN  opcode' = op /\ OP_Fx65(op, b) /\ Ran("OP_Fx65", op)

NextRoundTrip == RoundTripDump \/ RoundTripLoad

SpecRoundTrip == InitRoundTrip /\ [][NextRoundTrip]_vars

(* C21: for every x in 0..15 and every index I with I + x <= 4095,         *)
(* OP_Fx55 followed by OP_Fx65 with the same x leaves V0..Vx equal to      *)
(* their values before the dump, has copied exactly x + 1 bytes            *)
(* (memory[I + i] = Vi for i in 0..x, every other byte as before), and     *)
(* leaves the index register and V(x+1)..VF unchanged.  In the step of the *)
(* load, prev is the machine before the dump.                              *)
C21_DumpLoadRoundTrip ==
  [][(lastOp = "OP_Fx55" /\ lastOp' = "OP_Fx65" /\ OpX(opcode') = X
        /\ prev.index + X <= MEMORY_SIZE - 1) =>
       LET I == prev.index
           copied == I .. I + X
       IN  /\ registers' = prev.registers
           /\ index' = I
           /\ \A i \in 0..X : Mem(memory', I + i) = prev.registers[i]
           /\ \A a \in (DOMAIN memory' \cup DOMAIN FontMemory) \ copied :
                 Mem(memory', a) = Mem(FontMemory, a)]_vars

(* All sixteen registers were dumped at 0xFF0..0xFFF and loaded back. *)
C21_Witness ==
  /\ lastOp = "OP_Fx65"
  /\ prev.opcode = 65365
  /\ opcode = 65381
  /\ index = 4080
  /\ registers = RegisterPattern(100)
  /\ Mem(memory, 4095) = registers[15]

============================================================================
